---- MODULE Spec2Model ----
(***************************************************************************)
(* A model of automation/file_organizer.py: the FileOrganizer class, its   *)
(* two organize passes, the empty-folder pass and main().                   *)
(*                                                                         *)
(* The filesystem below the source directory is a function from relative   *)
(* paths (sequences of names) to nodes.  A name is kept in the form        *)
(* pathlib splits it into: a stem and a suffix (extension).  The stem is a *)
(* base string followed by the "_<n>" counters appended to it, so that the *)
(* name the duplicate loop builds for a.txt with counter 1 is the same     *)
(* name as a file the user called a_1.txt.                                 *)
(***************************************************************************)
EXTENDS Integers, Sequences, FiniteSets, TLC

\* Bounds of the model.
MaxFiles == 2      \* regular files among the direct children at the start
MaxRuns == 2       \* invocations of main() in a row on the same directory
MaxFaults == 1     \* filesystem calls that fail over those invocations

VARIABLES
    srcKind,        \* what args.directory is: "missing", "file" or "dir"
    fs,             \* the tree below the source directory: path -> node
    mode,           \* args.mode
    clean,          \* args.clean
    pc,             \* where main() is
    todo,           \* names the running for-loop has still to visit
    moved_count,    \* organize_by_*: moved_count
    removed_count,  \* clean_empty_folders: removed_count
    log,            \* the log records of this run
    trail,          \* per visited entry of this run: what the loop body did
    failed,         \* this run had a failing step (caught or not)
    fs0,            \* the tree when this run began
    fs1,            \* the tree when this run's clean_empty_folders began
    cleaning,       \* this run has entered clean_empty_folders
    run,            \* number of the current run of main()
    runs,           \* summaries of the earlier runs
    moveTotal,      \* file id -> successful moves over all runs
    faults          \* filesystem calls that have failed so far

vars == <<srcKind, fs, mode, clean, pc, todo, moved_count, removed_count,
          log, trail, failed, fs0, fs1, cleaning, run, runs, moveTotal,
          faults>>

----------------------------------------------------------------------------
\* Names and paths

Name(b, s, e) == [base |-> b, sfx |-> s, ext |-> e]
Plain(b, e) == Name(b, <<>>, e)
DirName(b) == Plain(b, "")

a_txt == Plain("a", ".txt")
a_1_txt == Name("a", <<1>>, ".txt")
a_2_txt == Name("a", <<2>>, ".txt")
photo_JPG == Plain("photo", ".JPG")
notes == Plain("notes", "")
DS_Store == Plain(".DS_Store", "")
k_txt == Plain("k", ".txt")
NoName == Plain("", "")

FileSeq == <<a_txt, a_1_txt, photo_JPG, notes, DS_Store>>
FileUniverse == {FileSeq[i] : i \in DOMAIN FileSeq}
FileId(n) == CHOOSE i \in DOMAIN FileSeq : FileSeq[i] = n

\* st_ctime of the files of the universe, in days since 2024-01-01
CTimeOf(n) ==
    CASE n = a_txt -> 3
      [] n = a_1_txt -> 20
      [] n = photo_JPG -> 40
      [] n = notes -> 45
      [] OTHER -> 5

DirNode == [kind |-> "dir", id |-> 0, ctime |-> 0]
FileNode(i, t) == [kind |-> "file", id |-> i, ctime |-> t]

EmptyTree == [p \in {} |-> DirNode]

Exists(f, p) == p \in DOMAIN f
IsFile(f, p) == p \in DOMAIN f /\ f[p].kind = "file"
IsDir(f, p) == p \in DOMAIN f /\ f[p].kind = "dir"
Parent(p) == SubSeq(p, 1, Len(p) - 1)
Children(f, d) == {p \in DOMAIN f : Len(p) = Len(d) + 1 /\ Parent(p) = d}
Put(f, p, node) == [q \in DOMAIN f \cup {p} |-> IF q = p THEN node ELSE f[q]]
Remove(f, p) == [q \in DOMAIN f \ {p} |-> f[q]]
Files(f) == {p \in DOMAIN f : f[p].kind = "file"}
Merge(f, g) == [q \in DOMAIN f \cup DOMAIN g |-> IF q \in DOMAIN g THEN g[q] ELSE f[q]]

----------------------------------------------------------------------------
\* FileOrganizer.__init__: the category table, in its order

file_types == <<
    [category |-> "Images",
     extensions |-> {".jpg", ".jpeg", ".png", ".gif", ".bmp", ".svg", ".webp", ".tiff"}],
    [category |-> "Documents",
     extensions |-> {".pdf", ".doc", ".docx", ".txt", ".rtf", ".odt", ".pages"}],
    [category |-> "Spreadsheets",
     extensions |-> {".xls", ".xlsx", ".csv", ".ods", ".numbers"}],
    [category |-> "Presentations",
     extensions |-> {".ppt", ".pptx", ".odp", ".key"}],
    [category |-> "Videos",
     extensions |-> {".mp4", ".avi", ".mkv", ".mov", ".wmv", ".flv", ".webm", ".m4v"}],
    [category |-> "Audio",
     extensions |-> {".mp3", ".wav", ".flac", ".aac", ".ogg", ".wma", ".m4a"}],
    [category |-> "Archives",
     extensions |-> {".zip", ".rar", ".7z", ".tar", ".gz", ".bz2", ".xz"}],
    [category |-> "Code",
     extensions |-> {".py", ".js", ".html", ".css", ".java", ".cpp", ".c", ".php", ".rb", ".go"}],
    [category |-> "Executables",
     extensions |-> {".exe", ".msi", ".dmg", ".pkg", ".deb", ".rpm", ".app"}] >>

\* str.lower() on the suffixes the model's names carry
Lower(s) ==
    CASE s = ".JPG" -> ".jpg"
      [] s = ".TXT" -> ".txt"
      [] s = ".Pdf" -> ".pdf"
      [] OTHER -> s

\* get_file_category without the lower(): the suffix is looked up as written
get_file_category_CaseSensitive(file_path) ==
    LET hits == {i \in DOMAIN file_types : file_path.ext \in file_types[i].extensions}
    IN  IF hits = {} THEN "Others"
        ELSE file_types[CHOOSE i \in hits : \A j \in hits : i <= j].category

\* get_file_category: the first category, in table order, listing the
\* lower-cased suffix; "Others" when none does
get_file_category(file_path) ==
    LET extension == Lower(file_path.ext)
        hits == {i \in DOMAIN file_types : extension \in file_types[i].extensions}
    IN  IF hits = {} THEN "Others"
        ELSE file_types[CHOOSE i \in hits : \A j \in hits : i <= j].category

Organized == DirName("Organized")
Organized_by_Date == DirName("Organized_by_Date")
Others == DirName("Others")

\* Path.mkdir(exist_ok=True): [ok, fs]; it raises when the path is taken by a
\* file or the parent is no directory
Mkdir(f, p) ==
    IF p \in DOMAIN f
    THEN [ok |-> f[p].kind = "dir", fs |-> f]
    ELSE IF Len(p) = 1 \/ IsDir(f, Parent(p))
         THEN [ok |-> TRUE, fs |-> Put(f, p, DirNode)]
         ELSE [ok |-> FALSE, fs |-> f]

RECURSIVE MkdirAll(_, _)
MkdirAll(f, paths) ==
    IF paths = <<>> THEN [ok |-> TRUE, fs |-> f]
    ELSE LET r == Mkdir(f, Head(paths))
         IN  IF r.ok THEN MkdirAll(r.fs, Tail(paths)) ELSE r

\* create_organized_structure: Organized, each category in table order, Others
create_organized_structure(f) ==
    MkdirAll(f, <<  <<Organized>>  >>
                \o [i \in DOMAIN file_types |-> <<Organized, DirName(file_types[i].category)>>]
                \o <<  <<Organized, Others>>  >>)

\* strftime('%Y-%m') of a creation time
YearMonth(t) == IF t < 31 THEN "2024-01" ELSE IF t < 60 THEN "2024-02" ELSE "2024-03"

----------------------------------------------------------------------------
\* The duplicate-name loop and the move

\* original_destination.parent / f"{stem}_{counter}{suffix}"
WithCounter(original, counter) ==
    LET n == original[Len(original)]
    IN  Parent(original) \o <<Name(n.base, Append(n.sfx, counter), n.ext)>>

\* the loop with "counter += 2"
RECURSIVE ResolveLoop_SkipsNames(_, _, _, _)
ResolveLoop_SkipsNames(f, original, destination, counter) ==
    IF Exists(f, destination)
    THEN ResolveLoop_SkipsNames(f, original, WithCounter(original, counter), counter + 2)
    ELSE [destination |-> destination, counter |-> counter]

\* the loop replaced by a single "_1" rename, without a second check
ResolveLoop_ChecksOnce(f, original, destination, counter) ==
    IF Exists(f, destination)
    THEN [destination |-> WithCounter(original, counter), counter |-> counter + 1]
    ELSE [destination |-> destination, counter |-> counter]

\* while destination.exists(): ...; counter += 1
\* Yields the destination the loop ends with and the final counter, which is
\* also the number of exists() calls made.
RECURSIVE ResolveLoop(_, _, _, _)
ResolveLoop(f, original, destination, counter) ==
    IF Exists(f, destination)
    THEN ResolveLoop(f, original, WithCounter(original, counter), counter + 1)
    ELSE [destination |-> destination, counter |-> counter]

\* What shutil.move(src, dst) can do with a regular file and a free dst:
\*   "moved"   os.rename, or copy and unlink, succeeded
\*   "failed"  it raised and nothing changed
\*   "copied"  os.rename raised, the copy to dst was made, unlinking src raised
MoveOutcomes(budget) == IF budget > 0 THEN {"moved", "failed", "copied"} ELSE {"moved"}

\* a move that copies and never unlinks the source
shutil_move_KeepsSource(f, src, dst, outcome) ==
    IF outcome = "failed" THEN f ELSE Put(f, dst, f[src])

\* a move that loses the file when it raises
shutil_move_DropsOnFailure(f, src, dst, outcome) ==
    CASE outcome = "moved" -> Put(Remove(f, src), dst, f[src])
      [] outcome = "copied" -> Put(f, dst, f[src])
      [] OTHER -> Remove(f, src)

shutil_move(f, src, dst, outcome) ==
    CASE outcome = "moved" -> Put(Remove(f, src), dst, f[src])
      [] outcome = "copied" -> Put(f, dst, f[src])
      [] OTHER -> f

----------------------------------------------------------------------------
\* The directory main() is pointed at

Old == DirName("Old")
Keep == DirName("Keep")
Nest == DirName("Nest")
Sub == DirName("Sub")

\* the destination folder a.txt goes to in each mode
HomeOf_a_txt(m) ==
    IF m = "type" THEN <<Organized, DirName("Documents")>>
    ELSE <<Organized_by_Date, DirName(YearMonth(CTimeOf(a_txt)))>>

SourceFiles(S) ==
    [p \in {<<n>> : n \in S} |-> FileNode(FileId(p[1]), CTimeOf(p[1]))]

\* files an earlier run (or the user) left in the destination folder
PreSets == {{}, {a_txt}, {a_txt, a_1_txt}}
PreTree(m, P) ==
    IF P = {} THEN EmptyTree
    ELSE LET d == HomeOf_a_txt(m)
         IN  [p \in {<<d[1]>>, d} \cup {d \o <<n>> : n \in P} |->
                 IF Len(p) = 3 THEN FileNode(10 + FileId(p[3]), 0) ELSE DirNode]

\* other folders among the direct children: none, or an empty folder next to
\* one that holds a file or next to one that holds an empty folder
DirCfgs == {"none", "keepfile", "nested"}
OtherDirs(c) ==
    CASE c = "keepfile" ->
            [p \in {<<Old>>, <<Keep>>, <<Keep, k_txt>>} |->
                IF p = <<Keep, k_txt>> THEN FileNode(20, 0) ELSE DirNode]
      [] c = "nested" ->
            [p \in {<<Old>>, <<Nest>>, <<Nest, Sub>>} |-> DirNode]
      [] OTHER -> EmptyTree

\* Path.iterdir() of the source directory: the names of the direct children,
\* read in one go (os.listdir) before the loop body runs
Listing(f) == {p[1] : p \in Children(f, <<>>)}

Rec(lv, m, n, c) == [level |-> lv, msg |-> m, name |-> n, count |-> c]

\* names of the entries of a folder
NamesIn(f, d) == {p[Len(p)] : p \in Children(f, d)}

\* What is remembered of one turn of a loop: the entry, the file's id, the
\* destination folder and the names in it when the duplicate loop ran, the
\* destination and counter the loop ended with, whether that destination was
\* free just before the move, and how the turn ended.
Visit(ps, n, i, fo, d, c, tk, fr, o) ==
    [pass |-> ps, name |-> n, id |-> i, folder |-> fo, dst |-> d, counter |-> c,
     taken |-> tk, free |-> fr, outcome |-> o]

Init ==
    /\ mode \in {"type", "date"}
    /\ clean \in BOOLEAN
    /\ srcKind \in {"missing", "file", "dir"}
    /\ \E S \in SUBSET FileUniverse, P \in PreSets, c \in DirCfgs :
          /\ Cardinality(S) <= MaxFiles
          /\ fs = IF srcKind = "dir"
                  THEN Merge(Merge(SourceFiles(S), PreTree(mode, P)), OtherDirs(c))
                  ELSE EmptyTree
    /\ fs0 = fs
    /\ fs1 = fs
    /\ cleaning = FALSE
    /\ pc = "start"
    /\ todo = {}
    /\ moved_count = 0
    /\ removed_count = 0
    /\ log = {}
    /\ trail = {}
    /\ failed = FALSE
    /\ run = 1
    /\ runs = <<>>
    /\ moveTotal = [i \in 1..Len(FileSeq) |-> 0]
    /\ faults = 0

----------------------------------------------------------------------------
\* organize_by_type

\* lines 68-75: the existence check, create_organized_structure, iterdir
organize_by_type_Begin ==
    /\ pc = "start" /\ mode = "type"
    /\ moved_count' = 0
    /\ IF srcKind = "missing"
       THEN /\ log' = log \cup {Rec("ERROR", "Source directory does not exist", NoName, 0)}
            /\ pc' = "organized"
            /\ UNCHANGED <<fs, todo, failed>>
       ELSE IF srcKind = "file"
       THEN \* exists() is true of a file; organized_dir.mkdir raises
            /\ pc' = "crashed"
            /\ failed' = TRUE
            /\ UNCHANGED <<fs, todo, log>>
       ELSE LET r == create_organized_structure(fs)
            IN  /\ fs' = r.fs
                /\ pc' = IF r.ok THEN "organize" ELSE "crashed"
                /\ todo' = IF r.ok THEN Listing(r.fs) ELSE todo
                /\ failed' = (failed \/ ~r.ok)
                /\ UNCHANGED log
    /\ UNCHANGED <<srcKind, mode, clean, removed_count, trail, fs0, fs1, cleaning, run, runs, moveTotal,
                   faults>>

\* line 76: the entries the loop body acts on
Eligible(f, name) == IsFile(f, <<name>>) /\ name # DS_Store

\* lines 75-93: one turn of the for loop on an entry that passes line 76
\* (the turns that skip an entry change nothing and are not steps of their own)
organize_by_type_Visit ==
    /\ pc = "organize" /\ mode = "type"
    /\ \E name \in todo :
        LET file_path == <<name>> IN
        /\ todo' = todo \ {name}
        /\ IF Eligible(fs, name)
           THEN LET category == get_file_category(name)
                    folder == <<Organized, DirName(category)>>
                    original_destination == folder \o <<name>>
                    r == ResolveLoop(fs, original_destination, original_destination, 1)
                    id == fs[file_path].id
                IN  \E outcome \in MoveOutcomes(MaxFaults - faults) :
                      /\ fs' = shutil_move(fs, file_path, r.destination, outcome)
                      /\ faults' = IF outcome = "moved" THEN faults ELSE faults + 1
                      /\ trail' = trail \cup
                            {Visit("organize", name, id, folder, r.destination, r.counter,
                                   NamesIn(fs, folder),
                                   ~Exists(fs, r.destination), outcome)}
                      /\ IF outcome = "moved"
                         THEN /\ log' = log \cup {Rec("INFO", "Moved", name, 0)}
                              /\ moved_count' = moved_count + 1
                              /\ moveTotal' = [moveTotal EXCEPT ![id] = @ + 1]
                              /\ UNCHANGED failed
                         ELSE /\ log' = log \cup {Rec("ERROR", "Error moving", name, 0)}
                              /\ failed' = TRUE
                              /\ UNCHANGED <<moved_count, moveTotal>>
           ELSE FALSE
    /\ UNCHANGED <<srcKind, mode, clean, pc, removed_count, fs0, fs1, cleaning, run, runs>>

\* line 95 (type) and line 134 (date): the loop is over, the summary is logged
organize_End ==
    /\ pc = "organize" /\ \A name \in todo : ~Eligible(fs, name)
    /\ log' = log \cup {Rec("INFO", "Successfully organized", NoName, moved_count)}
    /\ pc' = "organized"
    /\ todo' = {}
    /\ UNCHANGED <<srcKind, fs, mode, clean, moved_count, removed_count, trail,
                   failed, fs0, fs1, cleaning, run, runs, moveTotal, faults>>

----------------------------------------------------------------------------
\* organize_by_date

\* lines 99-107: the existence check, the Organized_by_Date folder, iterdir
organize_by_date_Begin ==
    /\ pc = "start" /\ mode = "date"
    /\ moved_count' = 0
    /\ IF srcKind = "missing"
       THEN /\ log' = log \cup {Rec("ERROR", "Source directory does not exist", NoName, 0)}
            /\ pc' = "organized"
            /\ UNCHANGED <<fs, todo, failed>>
       ELSE IF srcKind = "file"
       THEN \* exists() is true of a file; organized_dir.mkdir raises
            /\ pc' = "crashed"
            /\ failed' = TRUE
            /\ UNCHANGED <<fs, todo, log>>
       ELSE LET r == Mkdir(fs, <<Organized_by_Date>>)
            IN  /\ fs' = r.fs
                /\ pc' = IF r.ok THEN "organize" ELSE "crashed"
                /\ todo' = IF r.ok THEN Listing(r.fs) ELSE todo
                /\ failed' = (failed \/ ~r.ok)
                /\ UNCHANGED log
    /\ UNCHANGED <<srcKind, mode, clean, removed_count, trail, fs0, fs1, cleaning, run, runs, moveTotal,
                   faults>>

\* What one turn of the date loop can meet: file_path.stat() raising (line
\* 110), date_folder.mkdir raising when the folder has to be made (line 115),
\* or one of the outcomes of the move.
DateOutcomes(f, date_folder, budget) ==
    IF budget > 0
    THEN {"stat_raises"} \cup (IF Exists(f, date_folder) THEN {} ELSE {"mkdir_raises"})
            \cup MoveOutcomes(budget)
    ELSE MoveOutcomes(budget)

\* lines 107-132: one turn of the for loop on an entry that passes line 108.
\* stat() and mkdir() stand outside the try: when one raises, the exception
\* leaves organize_by_date and main.
organize_by_date_Visit ==
    /\ pc = "organize" /\ mode = "date"
    /\ \E name \in todo :
        LET file_path == <<name>> IN
        /\ todo' = todo \ {name}
        /\ IF Eligible(fs, name)
           THEN LET year_month == YearMonth(fs[file_path].ctime)
                    date_folder == <<Organized_by_Date, DirName(year_month)>>
                    made == Mkdir(fs, date_folder)
                    original_destination == date_folder \o <<name>>
                    r == ResolveLoop(made.fs, original_destination, original_destination, 1)
                    id == fs[file_path].id
                IN  \E outcome \in DateOutcomes(fs, date_folder, MaxFaults - faults) :
                      /\ faults' = IF outcome = "moved" THEN faults ELSE faults + 1
                      /\ IF outcome = "stat_raises"
                         THEN /\ pc' = "crashed"
                              /\ failed' = TRUE
                              /\ trail' = trail \cup
                                    {Visit("organize", name, id, <<>>, <<>>, 0, {}, FALSE, outcome)}
                              /\ UNCHANGED <<fs, log, moved_count, moveTotal>>
                         ELSE IF outcome = "mkdir_raises" \/ ~made.ok
                         THEN /\ pc' = "crashed"
                              /\ failed' = TRUE
                              /\ trail' = trail \cup
                                    {Visit("organize", name, id, date_folder, <<>>, 0, {}, FALSE,
                                           "mkdir_raises")}
                              /\ UNCHANGED <<fs, log, moved_count, moveTotal>>
                         ELSE /\ fs' = shutil_move(made.fs, file_path, r.destination, outcome)
                              /\ trail' = trail \cup
                                    {Visit("organize", name, id, date_folder, r.destination,
                                           r.counter, NamesIn(made.fs, date_folder),
                                           ~Exists(made.fs, r.destination), outcome)}
                              /\ pc' = pc
                              /\ IF outcome = "moved"
                                 THEN /\ log' = log \cup {Rec("INFO", "Moved", name, 0)}
                                      /\ moved_count' = moved_count + 1
                                      /\ moveTotal' = [moveTotal EXCEPT ![id] = @ + 1]
                                      /\ UNCHANGED failed
                                 ELSE /\ log' = log \cup {Rec("ERROR", "Error moving", name, 0)}
                                      /\ failed' = TRUE
                                      /\ UNCHANGED <<moved_count, moveTotal>>
           ELSE FALSE
    /\ UNCHANGED <<srcKind, mode, clean, removed_count, fs0, fs1, cleaning, run, runs>>

----------------------------------------------------------------------------
\* clean_empty_folders

\* lines 138-139: removed_count = 0 and iterdir, which raises when the source
\* directory is missing or is a file
clean_empty_folders_Begin ==
    /\ pc = "organized" /\ clean
    /\ removed_count' = 0
    /\ fs1' = fs
    /\ cleaning' = TRUE
    /\ IF srcKind = "dir"
       THEN /\ pc' = "clean"
            /\ todo' = Listing(fs)
            /\ UNCHANGED failed
       ELSE /\ pc' = "crashed"
            /\ failed' = TRUE
            /\ UNCHANGED todo
    /\ UNCHANGED <<srcKind, fs, mode, clean, moved_count, log, trail, fs0, run, runs,
                   moveTotal, faults>>

\* a test that takes a folder holding only folders for an empty one
HasEntries_FilesOnly(f, folder_path) ==
    \E p \in Children(f, folder_path) : f[p].kind = "file"

\* any(folder_path.iterdir())
HasEntries(f, folder_path) == Children(f, folder_path) # {}

\* What one turn of the clean loop can meet on a folder: the listing of the
\* folder raising (line 140, outside the try), rmdir raising (line 142), or
\* neither.
CleanOutcomes(f, folder_path, budget) ==
    IF budget > 0
    THEN {"ok", "list_raises"}
            \cup (IF HasEntries(f, folder_path) THEN {} ELSE {"rmdir_raises"})
    ELSE {"ok"}

\* lines 139-146: one turn of the for loop on an entry that is a directory
clean_empty_folders_Visit ==
    /\ pc = "clean"
    /\ \E name \in todo :
        LET folder_path == <<name>>
            entries == NamesIn(fs, folder_path)
        IN
        /\ todo' = todo \ {name}
        /\ IF IsDir(fs, folder_path)
           THEN \E outcome \in CleanOutcomes(fs, folder_path, MaxFaults - faults) :
                  /\ faults' = IF outcome = "ok" THEN faults ELSE faults + 1
                  /\ IF outcome = "list_raises"
                     THEN /\ pc' = "crashed"
                          /\ failed' = TRUE
                          /\ trail' = trail \cup
                                {Visit("clean", name, 0, <<>>, <<>>, 0, entries, FALSE, outcome)}
                          /\ UNCHANGED <<fs, log, removed_count>>
                     ELSE IF HasEntries(fs, folder_path)
                     THEN /\ trail' = trail \cup
                                {Visit("clean", name, 0, <<>>, <<>>, 0, entries, FALSE, "kept")}
                          /\ UNCHANGED <<fs, log, removed_count, pc, failed>>
                     ELSE IF outcome = "rmdir_raises"
                     THEN /\ log' = log \cup {Rec("ERROR", "Error removing folder", name, 0)}
                          /\ failed' = TRUE
                          /\ trail' = trail \cup
                                {Visit("clean", name, 0, <<>>, <<>>, 0, entries, FALSE, outcome)}
                          /\ UNCHANGED <<fs, removed_count, pc>>
                     ELSE /\ fs' = Remove(fs, folder_path)
                          /\ log' = log \cup {Rec("INFO", "Removed empty folder", name, 0)}
                          /\ removed_count' = removed_count + 1
                          /\ trail' = trail \cup
                                {Visit("clean", name, 0, <<>>, <<>>, 0, entries, FALSE, "removed")}
                          /\ UNCHANGED <<pc, failed>>
           ELSE FALSE
    /\ UNCHANGED <<srcKind, mode, clean, moved_count, fs0, fs1, cleaning, run, runs, moveTotal>>

\* line 148, then main's last lines
clean_empty_folders_End ==
    /\ pc = "clean" /\ \A name \in todo : ~IsDir(fs, <<name>>)
    /\ log' = log \cup {Rec("INFO", "Removed empty folders", NoName, removed_count)}
    /\ pc' = "done"
    /\ todo' = {}
    /\ UNCHANGED <<srcKind, fs, mode, clean, moved_count, removed_count, trail,
                   failed, fs0, fs1, cleaning, run, runs, moveTotal, faults>>

----------------------------------------------------------------------------
\* main

\* main, lines 172-176, without --clean
main_Return ==
    /\ pc = "organized" /\ ~clean
    /\ pc' = "done"
    /\ UNCHANGED <<srcKind, fs, mode, clean, todo, moved_count, removed_count, log,
                   trail, failed, fs0, fs1, cleaning, run, runs, moveTotal, faults>>

\* what is kept of a run once it is over
Summary ==
    [moved |-> moved_count, ok |-> (pc = "done" /\ ~failed), before |-> fs0,
     files |-> Files(fs)]

\* main() is started again with the same arguments on the same directory
main_Again ==
    /\ pc \in {"done", "crashed"}
    /\ srcKind = "dir"
    /\ run < MaxRuns
    /\ run' = run + 1
    /\ runs' = Append(runs, Summary)
    /\ pc' = "start"
    /\ todo' = {}
    /\ moved_count' = 0
    /\ removed_count' = 0
    /\ log' = {}
    /\ trail' = {}
    /\ failed' = FALSE
    /\ fs0' = fs
    /\ fs1' = fs
    /\ cleaning' = FALSE
    /\ UNCHANGED <<srcKind, fs, mode, clean, moveTotal, faults>>

Next ==
    \/ organize_by_type_Begin
    \/ organize_by_type_Visit
    \/ organize_by_date_Begin
    \/ organize_by_date_Visit
    \/ organize_End
    \/ clean_empty_folders_Begin
    \/ clean_empty_folders_Visit
    \/ clean_empty_folders_End
    \/ main_Return
    \/ main_Again

Spec == Init /\ [][Next]_vars

----------------------------------------------------------------------------
\* Properties

OrgTrail == {r \in trail : r.pass = "organize"}
CleanTrail == {r \in trail : r.pass = "clean"}

\* the turn reached shutil.move
Offered(r) == r.outcome \in {"moved", "failed", "copied"}

\* the organize pass of this run is over, by returning or by an exception
OrganizeOver ==
    /\ srcKind = "dir"
    /\ pc \in {"organized", "clean", "done", "crashed"}

\* the organize pass of this run has just ended and nothing ran after it
OrganizeJustOver ==
    /\ srcKind = "dir"
    /\ ~cleaning
    /\ pc \in {"organized", "crashed"}

LastName(p) == p[Len(p)]

\* <stem>_<n><ext> for the name nm
Suffixed(nm, n) == Name(nm.base, Append(nm.sfx, n), nm.ext)

\* the number the duplicate loop appended to the name: 0 when it kept the name
SuffixOf(r) ==
    IF LastName(r.dst) = r.name THEN 0
    ELSE LastName(r.dst).sfx[Len(LastName(r.dst).sfx)]

MovedOnce(r) ==
    /\ r.outcome = "moved"
    /\ r.free
    /\ ~Exists(fs, <<r.name>>)
    /\ IsFile(fs, r.dst)
    /\ fs[r.dst].id = r.id

LeftWithError(r) ==
    /\ IsFile(fs, <<r.name>>)
    /\ fs[<<r.name>>].id = r.id
    /\ Rec("ERROR", "Error moving", r.name, 0) \in log

\* C1: once an organize pass is over, every file it visited was either moved
\* once to a destination that was free just before the move, or is still at
\* its original path with an error logged for it (exactly one of the two), and
\* every file that was below a direct-child folder before the pass is still
\* there, unchanged.
C1_MovedOnceOrLeftWithError ==
    OrganizeOver =>
        /\ \A r \in OrgTrail : MovedOnce(r) # LeftWithError(r)
        /\ \A p \in Files(fs0) : Len(p) > 1 => (IsFile(fs, p) /\ fs[p] = fs0[p])

\* C2: with an existing source directory no exception leaves a pass, whatever
\* per-entry step fails, and a pass that is over has logged its summary.
C2_FailureNeverAbortsTheRun ==
    srcKind = "dir" =>
        /\ pc # "crashed"
        /\ (pc \in {"organized", "clean", "done"} =>
                Rec("INFO", "Successfully organized", NoName, moved_count) \in log)
        /\ (pc = "done" /\ clean =>
                Rec("INFO", "Removed empty folders", NoName, removed_count) \in log)

\* C3: when the source path is missing or is no directory, main ends normally:
\* no exception, nothing created, and the error is in the log when it is done.
C3_BadSourceEndsNormally ==
    srcKind # "dir" =>
        /\ pc # "crashed"
        /\ fs = EmptyTree
        /\ (pc = "done" =>
                Rec("ERROR", "Source directory does not exist", NoName, 0) \in log)

\* C4: in both modes the duplicate loop ends on a path that does not exist; it
\* is the desired path when that is free, and otherwise <stem>_<n><ext> in the
\* same folder for the smallest n >= 1 whose name is free.
C4_ResolvedPathIsFreeAndSmallest ==
    \A r \in OrgTrail :
        Offered(r) =>
            /\ r.free
            /\ Parent(r.dst) = r.folder
            /\ LastName(r.dst) \notin r.taken
            /\ IF r.name \notin r.taken
               THEN LastName(r.dst) = r.name
               ELSE \E n \in 1..Cardinality(r.taken) :
                        /\ LastName(r.dst) = Suffixed(r.name, n)
                        /\ \A m \in 1..(n - 1) : Suffixed(r.name, m) \in r.taken

\* C4 witness: with a.txt and a_1.txt in the folder, a new a.txt went to a_2.txt
C4_Witness ==
    \E r \in OrgTrail :
        /\ mode = "date"
        /\ r.name = a_txt
        /\ {a_txt, a_1_txt} \subseteq r.taken
        /\ r.outcome = "moved"
        /\ LastName(r.dst) = a_2_txt
        /\ IsFile(fs, r.dst)

\* the files the first run found eligible
FirstEligible == {p \in Files(runs[1].before) : Len(p) = 1 /\ p[1] # DS_Store}

ListedCategory(nm, cat) ==
    LET listing == {i \in DOMAIN file_types : Lower(nm.ext) \in file_types[i].extensions}
    IN  IF listing = {} THEN cat = "Others"
        ELSE \A i \in listing : file_types[i].category = cat

\* C7 as stated: after a type-mode pass without a failure each file the pass
\* handled is at Organized/<category>/<its original name>.
C7_KeepsOriginalName ==
    (pc = "organized" /\ mode = "type" /\ ~failed) =>
        \A r \in OrgTrail :
            \E cat \in {file_types[i].category : i \in DOMAIN file_types} \cup {"Others"} :
                /\ ListedCategory(r.name, cat)
                /\ IsFile(fs, <<Organized, DirName(cat), r.name>>)
                /\ fs[<<Organized, DirName(cat), r.name>>].id = r.id

\* C7: after a type-mode pass without a failure each file the pass handled is
\* in Organized/<category>/, the category being the one that lists its
\* lower-cased suffix or Others when none does, under its original name when
\* that name was free there and under <stem>_<n><ext> otherwise.
C7_FiledUnderItsCategory ==
    (pc = "organized" /\ mode = "type" /\ ~failed) =>
        \A r \in OrgTrail :
            \E cat \in {file_types[i].category : i \in DOMAIN file_types} \cup {"Others"} :
                /\ ListedCategory(r.name, cat)
                /\ r.folder = <<Organized, DirName(cat)>>
                /\ Parent(r.dst) = r.folder
                /\ IsFile(fs, r.dst)
                /\ fs[r.dst].id = r.id
                /\ IF r.name \notin r.taken
                   THEN LastName(r.dst) = r.name
                   ELSE \E n \in 1..Cardinality(r.taken) : LastName(r.dst) = Suffixed(r.name, n)

\* C7 witness: photo.JPG is in Images and notes in Others after a type-mode pass
C7_Witness ==
    /\ pc = "organized"
    /\ mode = "type"
    /\ ~failed
    /\ IsFile(fs, <<Organized, DirName("Images"), photo_JPG>>)
    /\ IsFile(fs, <<Organized, Others, notes>>)

\* the folders clean_empty_folders has removed
Removed == DOMAIN fs1 \ DOMAIN fs

\* the direct-child folders that were empty when clean_empty_folders began
EmptyFolders == {p \in DOMAIN fs1 : Len(p) = 1 /\ IsDir(fs1, p) /\ Children(fs1, p) = {}}

\* C8 as stated: when clean_empty_folders is done, the direct-child folders it
\* removed are exactly those with no entries, nothing else changed, and the
\* count it logged is the number of folders removed.
C8_RemovesExactlyTheEmptyFolders ==
    (cleaning /\ pc = "done") =>
        /\ Removed = EmptyFolders
        /\ \A p \in DOMAIN fs : p \in DOMAIN fs1 /\ fs[p] = fs1[p]
        /\ Rec("INFO", "Removed empty folders", NoName, Cardinality(Removed)) \in log

\* C8: clean_empty_folders removes only direct-child folders that had no
\* entries when examined, and nothing else changes; an empty direct-child
\* folder that is still there is one the loop has not reached, or one whose
\* listing or rmdir raised; removed_count is the number of folders removed,
\* and it is the count logged when the pass reaches its last line.
C8_RemovesOnlyEmptyFolders ==
    cleaning =>
        /\ Removed \subseteq EmptyFolders
        /\ \A p \in DOMAIN fs : p \in DOMAIN fs1 /\ fs[p] = fs1[p]
        /\ \A r \in CleanTrail : r.outcome = "removed" => (r.taken = {} /\ <<r.name>> \in Removed)
        /\ \A p \in EmptyFolders \ Removed :
                \/ p[1] \in todo
                \/ \E r \in CleanTrail :
                        r.name = p[1] /\ r.outcome \in {"list_raises", "rmdir_raises"}
        /\ \A r \in CleanTrail :
                r.outcome = "rmdir_raises" =>
                    Rec("ERROR", "Error removing folder", r.name, 0) \in log
        /\ removed_count = Cardinality(Removed)
        /\ (pc = "done" =>
                Rec("INFO", "Removed empty folders", NoName, Cardinality(Removed)) \in log)

\* C8 witness: the empty Old is gone, Keep with its file is left, the count is 1
C8_Witness ==
    /\ cleaning
    /\ pc = "done"
    /\ <<Old>> \in Removed
    /\ IsDir(fs, <<Keep>>)
    /\ IsFile(fs, <<Keep, k_txt>>)
    /\ removed_count = 1
    /\ Rec("INFO", "Removed empty folders", NoName, 1) \in log

\* C9: the duplicate loop ends, after at most (entries of the destination
\* folder + 1) existence checks, and the number it appends is at most the
\* number of entries of the destination folder.
C9_LoopBoundedByFolderSize ==
    \A r \in OrgTrail :
        Offered(r) =>
            /\ r.counter >= 1
            /\ r.counter <= Cardinality(r.taken) + 1
            /\ SuffixOf(r) <= Cardinality(r.taken)
            /\ SuffixOf(r) = r.counter - 1

\* C9 witness: a folder of two entries, both in the way, took three checks
C9_Witness ==
    \E r \in OrgTrail :
        /\ mode = "type"
        /\ Offered(r)
        /\ Cardinality(r.taken) = 2
        /\ r.counter = 3

\* C10: when an organize pass is over, every direct-child folder, everything
\* below one and .DS_Store are as they were, and every other direct-child
\* regular file was visited and reached the move.
C10_SkipsFoldersOffersEveryFile ==
    OrganizeJustOver =>
        /\ \A p \in DOMAIN fs0 :
                (Len(p) > 1 \/ fs0[p].kind = "dir" \/ p = <<DS_Store>>) =>
                    (p \in DOMAIN fs /\ fs[p] = fs0[p])
        /\ \A r \in OrgTrail : IsFile(fs0, <<r.name>>) /\ r.name # DS_Store
        /\ \A p \in Files(fs0) :
                (Len(p) = 1 /\ p # <<DS_Store>>) =>
                    \E r \in OrgTrail : r.name = p[1] /\ Offered(r)

====
